---- MODULE Spec2Model ----
(***************************************************************************)
(* Model of the /download request handler of src/tindb/app.py.             *)
(*                                                                         *)
(* Text is modelled as a sequence of one-character strings, so that        *)
(* str.strip, str.split, len, str.isalnum, datetime.strptime and           *)
(* datetime.strftime are computed character by character.  The SQL text is *)
(* a sequence of lexical fragments: the fixed fragments of the f-strings   *)
(* (none of which holds a question mark) and the generated "?" and ","     *)
(* fragments.                                                              *)
(***************************************************************************)
EXTENDS Integers, Sequences, FiniteSets, TLC

\* ------------------------------------------------------------------ bounds
\* Largest number of comma-separated tokens in the fe_tin form field.
MaxTins == 2
\* Largest number of rows the warehouse returns.
MaxRows == 2
\* Largest number of columns of the records table.
MaxCols == 2

\* -------------------------------------------------------- program constants
\* len(t) != 9
TIN_LEN == 9
\* len(npi) != 10
NPI_LEN == 10

\* ------------------------------------------------------------ text helpers
Digits == <<"0", "1", "2", "3", "4", "5", "6", "7", "8", "9">>
Letters == {"A", "B", "C", "D", "E", "F", "G", "H", "I", "N", "P", "x"}

IsDigit(c) == \E i \in 1..10 : Digits[i] = c
DigitVal(c) == (CHOOSE i \in 1..10 : Digits[i] = c) - 1
IsSpace(c) == c = " "

RECURSIVE lstrip(_)
lstrip(s) == IF s # <<>> /\ IsSpace(Head(s)) THEN lstrip(Tail(s)) ELSE s

RECURSIVE rstrip(_)
rstrip(s) ==
    IF s # <<>> /\ IsSpace(s[Len(s)]) THEN rstrip(SubSeq(s, 1, Len(s) - 1)) ELSE s

\* str.strip()
strip(s) == rstrip(lstrip(s))

\* str.split(","): the pieces between the commas, empty pieces included
RECURSIVE split(_)
split(s) ==
    IF \A i \in 1..Len(s) : s[i] # ","
    THEN <<s>>
    ELSE LET k == CHOOSE i \in 1..Len(s) :
                      s[i] = "," /\ \A j \in 1..(i - 1) : s[j] # ","
         IN  <<SubSeq(s, 1, k - 1)>> \o split(SubSeq(s, k + 1, Len(s)))

\* str.isalnum(): non-empty and every character a letter or a digit
isalnum(s) == s # <<>> /\ \A i \in 1..Len(s) : IsDigit(s[i]) \/ s[i] \in Letters

\* sep.join(parts) for a one-character separator
RECURSIVE join(_, _)
join(parts, sep) ==
    IF parts = <<>> THEN <<>>
    ELSE IF Len(parts) = 1 THEN parts[1]
    ELSE parts[1] \o <<sep>> \o join(Tail(parts), sep)

\* ------------------------------------------------------------------- dates
NoDate == [ok |-> FALSE, y |-> 0, m |-> 0, d |-> 0]

IsLeap(y) == (y % 4 = 0 /\ y % 100 # 0) \/ y % 400 = 0

DaysInMonth(y, m) ==
    IF m = 2 THEN (IF IsLeap(y) THEN 29 ELSE 28)
    ELSE IF m \in {4, 6, 9, 11} THEN 30 ELSE 31

\* Length of the text the %m directive takes at the head of s (0: no match).
\* The directive's pattern is 1[0-2]|0[1-9]|[1-9], alternatives in this order.
MonthLen(s) ==
    IF Len(s) >= 2 /\ s[1] = "1" /\ s[2] \in {"0", "1", "2"} THEN 2
    ELSE IF Len(s) >= 2 /\ s[1] = "0" /\ IsDigit(s[2]) /\ s[2] # "0" THEN 2
    ELSE IF Len(s) >= 1 /\ IsDigit(s[1]) /\ s[1] # "0" THEN 1
    ELSE 0

\* Length of the text the %d directive takes at the head of s (0: no match).
\* The pattern is 3[0-1]|[1-2]\d|0[1-9]|[1-9]| [1-9], alternatives in this order.
DayLen(s) ==
    IF Len(s) >= 2 /\ s[1] = "3" /\ s[2] \in {"0", "1"} THEN 2
    ELSE IF Len(s) >= 2 /\ s[1] \in {"1", "2"} /\ IsDigit(s[2]) THEN 2
    ELSE IF Len(s) >= 2 /\ s[1] = "0" /\ IsDigit(s[2]) /\ s[2] # "0" THEN 2
    ELSE IF Len(s) >= 1 /\ IsDigit(s[1]) /\ s[1] # "0" THEN 1
    ELSE IF Len(s) >= 2 /\ s[1] = " " /\ IsDigit(s[2]) /\ s[2] # "0" THEN 2
    ELSE 0

\* Value of a run of digits, a leading space of %d skipped
RECURSIVE NumVal(_)
NumVal(s) ==
    IF s = <<>> THEN 0
    ELSE IF s[Len(s)] = " " THEN 0
    ELSE 10 * NumVal(SubSeq(s, 1, Len(s) - 1)) + DigitVal(s[Len(s)])

\* datetime.strptime(s, "%Y-%m-%d"); ok = FALSE where it raises ValueError
strptime(s) ==
    IF ~(Len(s) >= 5 /\ (\A i \in 1..4 : IsDigit(s[i])) /\ s[5] = "-") THEN NoDate
    ELSE LET rest == SubSeq(s, 6, Len(s))
             ml   == MonthLen(rest)
         IN  IF ml = 0 \/ Len(rest) < ml + 1 \/ rest[ml + 1] # "-" THEN NoDate
             ELSE LET tail == SubSeq(rest, ml + 2, Len(rest))
                      dl   == DayLen(tail)
                  IN  IF dl = 0 \/ dl # Len(tail) THEN NoDate
                      ELSE LET y == NumVal(SubSeq(s, 1, 4))
                               m == NumVal(SubSeq(rest, 1, ml))
                               d == NumVal(tail)
                           IN  IF y >= 1 /\ d <= DaysInMonth(y, m)
                               THEN [ok |-> TRUE, y |-> y, m |-> m, d |-> d]
                               ELSE NoDate

\* n written with exactly w digits, zero padded
RECURSIVE Pad(_, _)
Pad(n, w) == IF w = 0 THEN <<>> ELSE Pad(n \div 10, w - 1) \o <<Digits[(n % 10) + 1]>>

\* dt.strftime("%Y-%m-%d"), for years of four digits
strftime(dt) == Pad(dt.y, 4) \o <<"-">> \o Pad(dt.m, 2) \o <<"-">> \o Pad(dt.d, 2)


\* ------------------------------------------------------------------ inputs
\* Tokens the fe_tin field is made of: empty, blank, nine characters (digits,
\* padded with spaces, arbitrary characters), eight and ten characters.
TinTokens ==
    { <<>>,
      <<" ">>,
      <<"1", "2", "3", "4", "5", "6", "7", "8", "9">>,
      <<" ", "1", "1", "1", "1", "1", "1", "1", "1", "1", " ">>,
      <<"A", "B", "C", "D", "E", "F", "G", "H", "!">>,
      <<"1", "2", "3", "4", "5", "6", "7", "8">>,
      <<"1", "2", "3", "4", "5", "6", "7", "8", "9", "0">> }

\* The fe_tin fields: one to MaxTins tokens joined by commas
TinFields ==
    { join(ts, ",") : ts \in UNION { [1..n -> TinTokens] : n \in 1..MaxTins } }

EndDateFields ==
    { <<>>,
      <<"2", "0", "2", "4", "-", "0", "6", "-", "0", "1">>,
      <<" ", "2", "0", "2", "4", "-", "6", "-", "1">>,
      <<"2", "0", "2", "4", "-", "1", "3", "-", "0", "1">>,
      <<"2", "0", "2", "3", "-", "0", "2", "-", "2", "9">> }

StartDateFields ==
    { <<>>,
      <<"2", "0", "2", "4", "-", "0", "1", "-", "1", "5">>,
      <<"2", "0", "2", "4", "-", "1", "-", " ", "5">>,
      <<"0", "1", "/", "1", "5", "/", "2", "0", "2", "4">> }

NpiFields ==
    { <<>>,
      <<"N", "P", "I", "0", "0", "0", "0", "0", "0", "1", " ">>,
      <<"A", "B", "C", "1", "2", "3", "4", "5">>,
      <<"A", "B", "C", "1", "2", "3", "4", "5", "6", "!">> }

\* The dates datetime.today() may give
Clock == { [ok |-> TRUE, y |-> 2024, m |-> 6, d |-> 1],
           [ok |-> TRUE, y |-> 2026, m |-> 11, d |-> 1] }

\* Subclasses of Exception the collaborators raise, with str(e)
ExceptionClasses == {"OperationalError", "DatabaseError", "ValueError", "MemoryError"}
NoExc == [cls |-> "", msg |-> ""]
ConnectFaults == { [cls |-> "OperationalError", msg |-> "connect failed"] }
ExecuteFaults == { [cls |-> "OperationalError", msg |-> "execute failed"],
                   [cls |-> "DatabaseError", msg |-> "bad statement"] }
FetchFaults == { [cls |-> "OperationalError", msg |-> "fetch failed"],
                 [cls |-> "ValueError", msg |-> "shape mismatch"] }
ExportFaults == { [cls |-> "MemoryError", msg |-> "out of memory"],
                  [cls |-> "ValueError", msg |-> "export failed"] }


\* ------------------------------------------------------------------- state
VARIABLES
    pc,              \* position of the handler
    form,            \* request.form, as posted
    fe_tin_raw, end_date_str, start_date_str, npi,
    tins,
    end_date_obj, start_date_obj, today,
    start_date, end_date,
    use_npi_filter, npi_list,
    query, params,
    con,             \* the teradatasql connection: "none", "open", "closed"
    connects,        \* calls of teradatasql.connect in this request
    executes,        \* calls of cur.execute in this request
    executed,        \* the (query, params) pairs handed to cur.execute
    rows, cols, df,
    output,          \* the spreadsheet written to the BytesIO, <<>> if none
    filename,
    exc,             \* the exception in flight
    response,        \* what download() returned
    responses        \* number of returns of download() in this request

inputs == <<form, fe_tin_raw, end_date_str, start_date_str, npi>>
validated == <<tins, end_date_obj, start_date_obj, today, start_date, end_date,
               use_npi_filter, npi_list>>
built == <<query, params>>
warehouse == <<con, connects, executes, executed, rows, cols, df>>
exported == <<output, filename>>
outcome == <<exc, response, responses>>
vars == <<pc, inputs, validated, built, warehouse, exported, outcome>>

NoResponse == [status |-> 0, msg |-> "", arg |-> <<>>, download_name |-> <<>>]
NoFrame == [rows |-> 0, cols |-> 0]

\* return body, status
Return(status, msg, arg, name) ==
    /\ response' = [status |-> status, msg |-> msg, arg |-> arg, download_name |-> name]
    /\ responses' = responses + 1
    /\ pc' = "done"

\* raise e inside the try block
Raise(e) ==
    /\ exc' = e
    /\ pc' = "except"
    /\ UNCHANGED <<response, responses>>

Init ==
    /\ pc = "idle"
    /\ form = [fe_tin |-> <<>>, end_date |-> <<>>, start_date |-> <<>>, npi |-> <<>>]
    /\ fe_tin_raw = <<>> /\ end_date_str = <<>> /\ start_date_str = <<>> /\ npi = <<>>
    /\ tins = <<>>
    /\ end_date_obj = NoDate /\ start_date_obj = NoDate /\ today = NoDate
    /\ start_date = <<>> /\ end_date = <<>>
    /\ use_npi_filter = FALSE /\ npi_list = <<>>
    /\ query = <<>> /\ params = <<>>
    /\ con = "none" /\ connects = 0 /\ executes = 0 /\ executed = <<>>
    /\ rows = 0 /\ cols = 0 /\ df = NoFrame
    /\ output = <<>> /\ filename = <<>>
    /\ exc = NoExc /\ response = NoResponse /\ responses = 0

\* --------------------------------------------------------- pure operations
\* tins = [t.strip() for t in fe_tin_raw.split(",") if t.strip()]
tins_of(raw) ==
    LET parts == split(raw)
        kept  == SelectSeq(parts, LAMBDA t : strip(t) # <<>>)
    IN  [i \in 1..Len(kept) |-> strip(kept[i])]

\* Only over-long tokens refused
bad_tin_too_long(t) == Len(t) > TIN_LEN

\* if len(t) != 9
bad_tin(t) == Len(t) # TIN_LEN

\* The last offending token named instead of the first
last_bad_tin(ts) ==
    IF \A i \in 1..Len(ts) : Len(ts[i]) = TIN_LEN THEN <<>>
    ELSE ts[CHOOSE i \in 1..Len(ts) :
                Len(ts[i]) # TIN_LEN /\ \A j \in (i + 1)..Len(ts) : Len(ts[j]) = TIN_LEN]

\* the first t of "for t in tins" that takes the return; <<>> if none does
first_bad_tin(ts) ==
    IF \A i \in 1..Len(ts) : ~bad_tin(ts[i]) THEN <<>>
    ELSE ts[CHOOSE i \in 1..Len(ts) : bad_tin(ts[i]) /\ \A j \in 1..(i - 1) : ~bad_tin(ts[j])]

\* "and" written for "or"
bad_npi_and(n) == Len(n) # NPI_LEN /\ ~isalnum(n)

\* if len(npi) != 10 or not npi.isalnum()
bad_npi(n) == Len(n) # NPI_LEN \/ ~isalnum(n)

\* ",".join(["?"] * n)
placeholders(n) == join([i \in 1..n |-> <<"?">>], ",")

\* A builder with a fixed placeholder count
tin_placeholders_fixed(ts) == placeholders(1)

\* tin_placeholders = ",".join(["?"] * len(tins))
tin_placeholders(ts) == placeholders(Len(ts))

\* npi_placeholders = ",".join(["?"] * len(npi_list))
npi_placeholders(nl) == placeholders(Len(nl))

base_cte ==
    << "WITH abc AS ( SELECT * FROM tin_db.records WHERE",
       "end_date >=", "?", "AND", "start_date <=", "?", ")" >>

final_where(use_npi, nl) ==
    << "WHERE", "x.end_date >=", "?", "AND", "x.start_date <=", "?" >>
    \o (IF use_npi
        THEN <<"AND (", "x.npi IN (">> \o npi_placeholders(nl) \o <<"))">>
        ELSE <<>>)

build_query(ts, use_npi, nl) ==
    base_cte
    \o <<"SELECT * FROM ( SELECT * FROM abc WHERE", "tin IN (">>
    \o tin_placeholders(ts)
    \o <<")", ") x">>
    \o final_where(use_npi, nl)

\* The final filters bound in the wrong order
build_params_swapped(ed, sd, ts, use_npi, nl) ==
    <<ed, sd>> \o ts \o <<sd, ed>> \o (IF use_npi THEN nl ELSE <<>>)

\* The dates bound once, the final filters left without values
build_params_once(ed, sd, ts, use_npi, nl) ==
    <<ed, sd>> \o ts \o (IF use_npi THEN nl ELSE <<>>)

build_params(ed, sd, ts, use_npi, nl) ==
    <<ed, sd>> \o ts \o <<ed, sd>> \o (IF use_npi THEN nl ELSE <<>>)

\* The empty check left out
df_empty_never(frame) == FALSE

\* df.empty
df_empty(frame) == frame.rows = 0 \/ frame.cols = 0

\* A file name that also carries the first TIN
build_filename_with_tin(ed, ts) ==
    <<"t", "i", "n", "_", "r", "e", "p", "o", "r", "t", "_">> \o ts[1] \o <<"_">> \o ed
    \o <<".", "x", "l", "s", "x">>

\* filename = f"tin_report_{end_date}.xlsx"
build_filename(ed, ts) ==
    <<"t", "i", "n", "_", "r", "e", "p", "o", "r", "t", "_">> \o ed
    \o <<".", "x", "l", "s", "x">>

\* The connection left as it is on leaving the block
exit_with_leak(c) == c

\* __exit__ of "with teradatasql.connect(...) as con": the connection is closed
exit_with(c) == "closed"

\* A handler for the driver's errors only
caught_operational(e) == e.cls = "OperationalError"

\* except Exception as e
caught(e) == e.cls \in ExceptionClasses


\* ----------------------------------------------------------------- actions
\* The locals of a request that has not started, and no connection
Fresh ==
    /\ tins' = <<>>
    /\ end_date_obj' = NoDate /\ start_date_obj' = NoDate /\ today' = NoDate
    /\ start_date' = <<>> /\ end_date' = <<>>
    /\ use_npi_filter' = FALSE /\ npi_list' = <<>>
    /\ query' = <<>> /\ params' = <<>>
    /\ con' = "none" /\ connects' = 0 /\ executes' = 0 /\ executed' = <<>>
    /\ rows' = 0 /\ cols' = 0 /\ df' = NoFrame
    /\ output' = <<>> /\ filename' = <<>>
    /\ exc' = NoExc /\ response' = NoResponse /\ responses' = 0

\* A POST /download arrives; lines 37-40 read and strip the four fields.
Request ==
    /\ pc = "idle"
    /\ \E f \in TinFields, e \in EndDateFields, s \in StartDateFields, n \in NpiFields :
          /\ form' = [fe_tin |-> f, end_date |-> e, start_date |-> s, npi |-> n]
          /\ fe_tin_raw' = strip(f)
          /\ end_date_str' = strip(e)
          /\ start_date_str' = strip(s)
          /\ npi' = strip(n)
    /\ pc' = "tin"
    /\ Fresh

\* The response is sent; the worker is free for the next request, which shares
\* nothing with this one.
Finish ==
    /\ pc = "done"
    /\ pc' = "idle"
    /\ form' = [fe_tin |-> <<>>, end_date |-> <<>>, start_date |-> <<>>, npi |-> <<>>]
    /\ fe_tin_raw' = <<>> /\ end_date_str' = <<>> /\ start_date_str' = <<>> /\ npi' = <<>>
    /\ Fresh

\* TIN VALIDATION
ValidateTin ==
    /\ pc = "tin"
    /\ tins' = tins_of(fe_tin_raw)
    /\ IF tins' = <<>>
       THEN Return(400, "TIN is required.", <<>>, <<>>)
       ELSE IF first_bad_tin(tins') # <<>>
       THEN Return(400, "TIN must be 9 characters (letters/numbers allowed).",
                   first_bad_tin(tins'), <<>>)
       ELSE pc' = "end_date" /\ UNCHANGED <<response, responses>>
    /\ UNCHANGED <<inputs, end_date_obj, start_date_obj, today, start_date, end_date,
                   use_npi_filter, npi_list, built, warehouse, exported, exc>>

\* END DATE VALIDATION
ValidateEndDate ==
    /\ pc = "end_date"
    /\ end_date_obj' = strptime(end_date_str)
    /\ IF ~end_date_obj'.ok
       THEN Return(400, "End Date must be in yyyy-mm-dd format.", <<>>, <<>>)
       ELSE pc' = "start_date" /\ UNCHANGED <<response, responses>>
    /\ UNCHANGED <<inputs, tins, start_date_obj, today, start_date, end_date,
                   use_npi_filter, npi_list, built, warehouse, exported, exc>>

\* START DATE OPTIONAL, then the two strftime calls
ValidateStartDate ==
    /\ pc = "start_date"
    /\ \E now \in Clock :
          /\ today' = IF start_date_str # <<>> THEN today ELSE now
          /\ start_date_obj' = IF start_date_str # <<>> THEN strptime(start_date_str)
                               ELSE now
    /\ IF ~start_date_obj'.ok
       THEN /\ Return(400, "Start Date must be in yyyy-mm-dd format.", <<>>, <<>>)
            /\ UNCHANGED <<start_date, end_date>>
       ELSE /\ start_date' = strftime(start_date_obj')
            /\ end_date' = strftime(end_date_obj)
            /\ pc' = "npi"
            /\ UNCHANGED <<response, responses>>
    /\ UNCHANGED <<inputs, tins, end_date_obj, use_npi_filter, npi_list, built,
                   warehouse, exported, exc>>

\* NPI VALIDATION
ValidateNpi ==
    /\ pc = "npi"
    /\ IF npi # <<>> /\ bad_npi(npi)
       THEN /\ Return(400, "NPI must be exactly 10 alphanumeric characters.", <<>>, <<>>)
            /\ UNCHANGED <<use_npi_filter, npi_list>>
       ELSE /\ use_npi_filter' = (npi # <<>>)
            /\ npi_list' = IF npi # <<>> THEN <<npi>> ELSE npi_list
            /\ pc' = "build"
            /\ UNCHANGED <<response, responses>>
    /\ UNCHANGED <<inputs, tins, end_date_obj, start_date_obj, today, start_date,
                   end_date, built, warehouse, exported, exc>>

\* BUILD PLACEHOLDERS, BUILD SQL DYNAMICALLY, PARAM ORDER BUILD
BuildQuery ==
    /\ pc = "build"
    /\ query' = build_query(tins, use_npi_filter, npi_list)
    /\ params' = build_params(end_date, start_date, tins, use_npi_filter, npi_list)
    /\ pc' = "connect"
    /\ UNCHANGED <<inputs, validated, warehouse, exported, outcome>>

\* with teradatasql.connect(...) as con: the connection opens, or connect raises
Connect ==
    /\ pc = "connect"
    /\ connects' = connects + 1
    /\ \/ /\ con' = "open"
          /\ pc' = "execute"
          /\ UNCHANGED outcome
       \/ /\ \E e \in ConnectFaults : Raise(e)
          /\ UNCHANGED con
    /\ UNCHANGED <<inputs, validated, built, executes, executed, rows, cols, df, exported>>

\* cur = con.cursor(); cur.execute(query, params): the warehouse answers with a
\* result set, or execute raises and the with block closes the connection
Execute ==
    /\ pc = "execute"
    /\ executes' = executes + 1
    /\ executed' = Append(executed, [query |-> query, params |-> params])
    /\ \/ /\ \E r \in 0..MaxRows, c \in 1..MaxCols : rows' = r /\ cols' = c
          /\ pc' = "fetch"
          /\ UNCHANGED <<con, outcome>>
       \/ /\ \E e \in ExecuteFaults : Raise(e)
          /\ con' = exit_with(con)
          /\ UNCHANGED <<rows, cols>>
    /\ UNCHANGED <<inputs, validated, built, connects, df, exported>>

\* rows = cur.fetchall(); cols = ...; df = pd.DataFrame(rows, columns=cols);
\* leaving the with block closes the connection, also when one of them raises
Fetch ==
    /\ pc = "fetch"
    /\ con' = exit_with(con)
    /\ \/ /\ df' = [rows |-> rows, cols |-> cols]
          /\ pc' = "export"
          /\ UNCHANGED outcome
       \/ /\ \E e \in FetchFaults : Raise(e)
          /\ UNCHANGED df
    /\ UNCHANGED <<inputs, validated, built, connects, executes, executed, rows, cols,
                   exported>>

\* if df.empty: 404; else EXCEL EXPORT and send_file
Export ==
    /\ pc = "export"
    /\ IF df_empty(df)
       THEN /\ Return(404, "No records found.", <<>>, <<>>)
            /\ UNCHANGED <<exported, exc>>
       ELSE \/ /\ output' = <<[header |-> df.cols, rows |-> df.rows]>>
               /\ filename' = build_filename(end_date, tins)
               /\ Return(200, "attachment", <<>>, filename')
               /\ UNCHANGED exc
            \/ /\ \E e \in ExportFaults : Raise(e)
               /\ UNCHANGED exported
    /\ UNCHANGED <<inputs, validated, built, warehouse>>

\* except Exception as e: return f"Error: {str(e)}", 500
Except ==
    /\ pc = "except"
    /\ IF caught(exc)
       THEN Return(500, "Error: ", exc.msg, <<>>)
       ELSE pc' = "unhandled" /\ UNCHANGED <<response, responses>>
    /\ UNCHANGED <<inputs, validated, built, warehouse, exported, exc>>

Next ==
    \/ Request
    \/ ValidateTin
    \/ ValidateEndDate
    \/ ValidateStartDate
    \/ ValidateNpi
    \/ BuildQuery
    \/ Connect
    \/ Execute
    \/ Fetch
    \/ Export
    \/ Except
    \/ Finish

Spec == Init /\ [][Next]_vars


\* ------------------------------------------------------ reading a statement
\* Number of "?" fragments in a statement text
RECURSIVE CountPlaceholders(_)
CountPlaceholders(q) ==
    IF q = <<>> THEN 0
    ELSE (IF Head(q) = "?" THEN 1 ELSE 0) + CountPlaceholders(Tail(q))

\* Index in q of the k-th "?" from the left
PlaceholderAt(q, k) ==
    CHOOSE p \in 1..Len(q) :
        q[p] = "?" /\ CountPlaceholders(SubSeq(q, 1, p)) = k

ClauseHeads ==
    {"end_date >=", "start_date <=", "tin IN (", "x.end_date >=", "x.start_date <=",
     "x.npi IN ("}

\* Index of the fragment opening the clause the placeholder at p belongs to
ClauseOf(q, p) ==
    CHOOSE h \in 1..p :
        q[h] \in ClauseHeads /\ \A j \in (h + 1)..p : q[j] \notin ClauseHeads

\* The value the clause of the k-th placeholder of q is about
MeantFor(q, k) ==
    LET p == PlaceholderAt(q, k)
        h == ClauseOf(q, p)
        n == CountPlaceholders(SubSeq(q, h, p))
    IN  CASE q[h] \in {"end_date >=", "x.end_date >="} -> <<"end", end_date>>
          [] q[h] \in {"start_date <=", "x.start_date <="} -> <<"start", start_date>>
          [] q[h] = "tin IN (" ->
                 IF n <= Len(tins) THEN <<"tin", tins[n]>> ELSE <<"tin", <<"unbound">>>>
          [] q[h] = "x.npi IN (" -> <<"npi", npi>>

\* Number of placeholders of the tin IN (...) clause
TinPlaceholders(q) ==
    Cardinality({k \in 1..CountPlaceholders(q) : MeantFor(q, k)[1] = "tin"})

\* A statement was handed to cur.execute
Executed == executes > 0

\* C1: whenever a statement has been built, and for every statement handed to
\* cur.execute, the number of "?" placeholders in the query text equals the
\* length of the parameter list, and the tin IN (...) clause holds exactly
\* len(tins) placeholders.
C1_PlaceholdersMatchParams ==
    /\ query # <<>> =>
          /\ CountPlaceholders(query) = Len(params)
          /\ TinPlaceholders(query) = Len(tins)
    /\ \A i \in 1..Len(executed) :
          CountPlaceholders(executed[i].query) = Len(executed[i].params)

\* A statement with two TINs and the NPI clause reached cur.execute
C1_Witness ==
    Executed /\ Len(tins) = 2 /\ use_npi_filter
    /\ CountPlaceholders(executed[1].query) = 7

\* C2: in the statement handed to cur.execute the i-th parameter is the value
\* meant for the clause of the i-th placeholder from the left: the end date for
\* every end_date clause, the start date for every start_date clause, the k-th
\* TIN of the input for the k-th placeholder of the IN list, the NPI for the
\* NPI clause.
C2_PositionalBinding ==
    \A i \in 1..Len(executed) :
        LET q  == executed[i].query
            ps == executed[i].params
        IN  \A k \in 1..CountPlaceholders(q) :
                k <= Len(ps) /\ ps[k] = MeantFor(q, k)[2]

\* Executed with two different TINs, an NPI and different start and end dates
C2_Witness ==
    /\ Executed /\ use_npi_filter
    /\ Len(tins) = 2 /\ tins[1] # tins[2]
    /\ start_date # end_date
    /\ executed[1].params[3] = tins[1] /\ executed[1].params[4] = tins[2]

\* C3 as stated: the parameter list is [endDate, startDate, tin_1..tin_n, (npi)],
\* of length 2 + n + (1 if NPI), which is also the placeholder count.
C3_Original ==
    \A i \in 1..Len(executed) :
        /\ executed[i].params
              = <<end_date, start_date>> \o tins \o (IF use_npi_filter THEN <<npi>> ELSE <<>>)
        /\ CountPlaceholders(executed[i].query)
              = 2 + Len(tins) + (IF use_npi_filter THEN 1 ELSE 0)

\* C3 amended: the parameter list is
\* [endDate, startDate, tin_1..tin_n, endDate, startDate, (npi)]; its length and
\* the placeholder count are 4 + n + (1 if NPI): 7 for two TINs and an NPI.
C3_ParamList ==
    \A i \in 1..Len(executed) :
        /\ executed[i].params
              = <<end_date, start_date>> \o tins \o <<end_date, start_date>>
                \o (IF use_npi_filter THEN <<npi>> ELSE <<>>)
        /\ Len(executed[i].params) = 4 + Len(tins) + (IF use_npi_filter THEN 1 ELSE 0)
        /\ CountPlaceholders(executed[i].query) = Len(executed[i].params)

\* Two TINs and an NPI: seven parameters
C3_Witness ==
    Executed /\ Len(tins) = 2 /\ use_npi_filter /\ Len(executed[1].params) = 7


\* --------------------------------------------------- reading the form fields
\* The comma-separated pieces of the posted fe_tin field
Pieces == split(strip(form.fe_tin))
NonBlank == {i \in 1..Len(Pieces) : strip(Pieces[i]) # <<>>}
WrongLength == {i \in NonBlank : Len(strip(Pieces[i])) # 9}
Least(S) == CHOOSE i \in S : \A j \in S : i <= j

MissingTin == NonBlank = {}
BadTin == WrongLength # {}
BadEndDate == ~strptime(strip(form.end_date)).ok
BadStartDate == strip(form.start_date) # <<>> /\ ~strptime(strip(form.start_date)).ok
BadNpi ==
    /\ strip(form.npi) # <<>>
    /\ \/ Len(strip(form.npi)) # 10
       \/ \E i \in 1..Len(strip(form.npi)) :
             ~IsDigit(strip(form.npi)[i]) /\ strip(form.npi)[i] \notin Letters
FailsValidation == MissingTin \/ BadTin \/ BadEndDate \/ BadStartDate \/ BadNpi

\* sub occurs in s
Contains(s, sub) ==
    \E i \in 1..(Len(s) - Len(sub) + 1) : SubSeq(s, i, i + Len(sub) - 1) = sub

TinMessages ==
    {"TIN is required.", "TIN must be 9 characters (letters/numbers allowed)."}

\* C4: a request that fails validation never opens a connection and never
\* executes a statement, and is answered with 400; a request answered with 400
\* has made no connect and no execute call.
C4_ValidationShortCircuits ==
    /\ response.status = 400 => connects = 0 /\ executes = 0 /\ con = "none"
    /\ (pc # "idle" /\ FailsValidation) =>
          /\ connects = 0 /\ executes = 0 /\ con = "none"
          /\ pc = "done" => response.status = 400

\* A request whose only fault is its NPI has been answered
C4_Witness ==
    /\ pc = "done" /\ response.status = 400
    /\ BadNpi /\ ~MissingTin /\ ~BadTin /\ ~BadEndDate /\ ~BadStartDate
    /\ connects = 0

\* The handler is at query construction or past it
PastValidation ==
    pc \in {"build", "connect", "execute", "fetch", "export"} \/ query # <<>>

\* YYYY-MM-DD text of a calendar date
IsIsoDate(s, dt) ==
    /\ Len(s) = 10 /\ s[5] = "-" /\ s[8] = "-"
    /\ dt.ok /\ dt.m \in 1..12 /\ dt.d \in 1..DaysInMonth(dt.y, dt.m)
    /\ strptime(s) = dt

\* C5: at query construction and from there on the filter values are well
\* formed: tins is non-empty and every TIN has 9 characters, the end date is a
\* calendar date read from the posted field, the start date is a calendar date
\* read from the posted field or the clock's date when the field is empty, and
\* the NPI is absent or 10 alphanumeric characters.
C5_FilterSetInvariant ==
    PastValidation =>
       /\ tins # <<>>
       /\ \A i \in 1..Len(tins) : Len(tins[i]) = 9
       /\ IsIsoDate(end_date, end_date_obj)
       /\ end_date_obj = strptime(end_date_str)
       /\ IsIsoDate(start_date, start_date_obj)
       /\ IF start_date_str = <<>>
          THEN today \in Clock /\ start_date_obj = today
          ELSE start_date_obj = strptime(start_date_str)
       /\ npi = <<>> \/ (Len(npi) = 10 /\ isalnum(npi))
       /\ use_npi_filter <=> npi # <<>>

\* Query construction reached with the start date defaulted, and with an NPI
\* and dates posted without zero padding
C5_Witness ==
    /\ pc = "connect" /\ use_npi_filter
    /\ form.end_date = <<" ", "2", "0", "2", "4", "-", "6", "-", "1">>
    /\ start_date_str = <<>> /\ start_date_obj = today

\* C6: a request opens at most one connection, and once the handler has left
\* the with block (by falling out of it or by an exception) and when it has
\* returned, the connection is not open.
C6_ConnectionScoped ==
    /\ connects <= 1
    /\ pc \in {"export", "except", "done", "unhandled"} => con # "open"
    /\ con # "none" => connects = 1

\* execute raised with the connection open and the response has been returned
C6_Witness ==
    /\ pc = "done" /\ response.status = 500
    /\ exc \in ExecuteFaults /\ con = "closed"

\* C7: a valid request whose result has zero rows is answered 404 with no
\* spreadsheet and no file name; a spreadsheet exists only with at least one
\* row, and a 200 attachment only with a spreadsheet.
C7_EmptyResultIs404 ==
    /\ (pc = "done" /\ exc = NoExc /\ Executed /\ rows = 0) =>
          response.status = 404 /\ output = <<>> /\ response.download_name = <<>>
    /\ output # <<>> => output[1].rows >= 1 /\ output[1].rows = rows
    /\ response.status = 200 => output # <<>> /\ rows >= 1
    /\ response.status = 404 => rows = 0 /\ Executed

\* Zero rows were fetched and the request answered
C7_Witness ==
    pc = "done" /\ Executed /\ rows = 0 /\ exc = NoExc /\ response.status = 404

\* C8: once connect, execute, fetch or export has raised, the request makes no
\* further connect or execute call, never reaches a 200 response and never
\* leaves the handler unhandled; it ends with exactly one response, of status
\* 500, carrying the message of the exception.
C8_FailureIsFatal ==
    /\ pc # "unhandled"
    /\ responses <= 1
    /\ exc # NoExc =>
          /\ pc \in {"except", "done"}
          /\ connects <= 1 /\ executes <= 1
          /\ pc = "done" =>
                /\ responses = 1
                /\ response.status = 500
                /\ response.msg = "Error: " /\ response.arg = exc.msg
    /\ response.status = 500 => exc # NoExc

\* The export failed after a successful fetch and the request was answered
C8_Witness ==
    /\ pc = "done" /\ exc \in ExportFaults /\ exc.cls # "OperationalError"
    /\ response.status = 500 /\ executes = 1

S_tin_report == <<"t", "i", "n", "_", "r", "e", "p", "o", "r", "t", "_">>
S_xlsx == <<".", "x", "l", "s", "x">>
S_123456789 == <<"1", "2", "3", "4", "5", "6", "7", "8", "9">>
S_2024_06_01 == <<"2", "0", "2", "4", "-", "0", "6", "-", "0", "1">>

\* C9 as stated: the attachment's file name contains the requested TIN and the
\* end date.
C9_Original ==
    response.status = 200 =>
       /\ Contains(response.download_name, tins[1])
       /\ Contains(response.download_name, end_date)

\* C9 amended: the attachment's file name is tin_report_<end date as
\* YYYY-MM-DD>.xlsx, a function of the posted end date alone; it contains the
\* end date, and for fe_tin=123456789 and end_date=2024-06-01 it is
\* tin_report_2024-06-01.xlsx, which does not contain 123456789.
C9_FilenameFromEndDate ==
    response.status = 200 =>
       /\ response.download_name
             = S_tin_report \o strftime(strptime(strip(form.end_date))) \o S_xlsx
       /\ Contains(response.download_name, end_date)
       /\ (tins = <<S_123456789>> /\ strip(form.end_date) = S_2024_06_01) =>
             /\ Contains(response.download_name, S_2024_06_01)
             /\ ~Contains(response.download_name, S_123456789)

\* The export of scenario A succeeded
C9_Witness ==
    /\ pc = "done" /\ response.status = 200
    /\ tins = <<S_123456789>> /\ form.end_date = S_2024_06_01
    /\ start_date_str = <<>> /\ npi = <<>>

\* C10: once TIN validation has run: if no comma-separated piece of fe_tin is
\* non-blank the request is answered 400 "TIN is required."; otherwise, if some
\* trimmed piece is not 9 characters long it is answered 400 with the bad-TIN
\* message naming the first such piece in input order; otherwise tins holds the
\* trimmed non-blank pieces in input order, whatever their characters, and the
\* answer is not a TIN error.
C10_TinValidation ==
    pc \notin {"idle", "tin"} =>
       IF MissingTin
       THEN /\ pc = "done" /\ response.status = 400
            /\ response.msg = "TIN is required."
       ELSE IF BadTin
       THEN /\ pc = "done" /\ response.status = 400
            /\ response.msg = "TIN must be 9 characters (letters/numbers allowed)."
            /\ response.arg = strip(Pieces[Least(WrongLength)])
       ELSE /\ response.msg \notin TinMessages
            /\ Len(tins) = Cardinality(NonBlank)
            /\ \A k \in 1..Len(tins) :
                  \E i \in NonBlank :
                     /\ tins[k] = strip(Pieces[i])
                     /\ Cardinality({j \in NonBlank : j < i}) = k - 1

\* Two offending tokens of different lengths: the first one is named
C10_Witness ==
    /\ pc = "done" /\ response.status = 400
    /\ Cardinality(WrongLength) = 2
    /\ strip(Pieces[1]) # strip(Pieces[2])
    /\ response.arg = strip(Pieces[1])

====
